---- MODULE Spec2Model ----
(***************************************************************************)
(* A model of sasdocs' sasProject (src/sasdocs/project.py): construction   *)
(* of a project from a root directory, the include closure of              *)
(* add_programs_to_project, the failure filter, the flattened object       *)
(* stream, the macro-variable mapping and the object counts.               *)
(*                                                                         *)
(* sasProgram (sasdocs/program.py) is not part of the source at hand; the  *)
(* Program Unit and its object tree are modelled from the specification.   *)
(***************************************************************************)
EXTENDS Naturals, Sequences, FiniteSets

\* ------------------------------------------------------------------ bounds

\* How many times the project is constructed on the unchanged directory tree.
MaxRuns == 2
\* The deepest nesting of macros in a program file of the tree.
MaxDepth == 2
\* The largest number of %include statements in one program file.
MaxIncludes == 2

\* ------------------------------------------------------- the directory tree

\* The program files that exist, in the order a directory walk meets them.
PathOrder == <<"a.sas", "b.sas", "c.sas">>

Paths == {PathOrder[i] : i \in 1..Len(PathOrder)}

Kinds == {"macro", "include", "macroVariableDefinition", "dataStep"}

\* The attributes a fully built sasProject has.
AllAttrs == {"programs", "path", "macroVariables", "name", "summary",
             "objects", "buildTime", "readme", "documentation"}

EmptyMap == [n \in {} |-> 0]

Range(s) == {s[i] : i \in 1..Len(s)}

\* ------------------------------------------------------- syntactic objects

Obj(kind, path, variable, value, contents) ==
    [kind |-> kind, id |-> 0, path |-> path, variable |-> variable,
     value |-> value, contents |-> contents]

Macro(contents) == Obj("macro", "", "", 0, contents)

Include(path) == Obj("include", path, "", 0, <<>>)

MacroVariableDefinition(variable, value) ==
    Obj("macroVariableDefinition", "", variable, value, <<>>)

DataStep == Obj("dataStep", "", "", 0, <<>>)

RECURSIVE Size(_), SizeSeq(_)
\* The number of objects in the tree rooted at o.
Size(o) == 1 + SizeSeq(o.contents)

SizeSeq(s) == IF s = <<>> THEN 0 ELSE Size(Head(s)) + SizeSeq(Tail(s))

RECURSIVE Number(_, _)
\* The objects of s with their identities: numbered from n in document order.
Number(s, n) ==
    IF s = <<>> THEN <<>>
    ELSE LET h == Head(s)
         IN  <<[h EXCEPT !.id = n, !.contents = Number(h.contents, n + 1)]>>
             \o Number(Tail(s), n + Size(h))

RECURSIVE Nest(_, _)
\* inner, wrapped in d macros, each with a data step before the next level.
Nest(d, inner) ==
    IF d = 0 THEN inner
    ELSE <<Macro(<<DataStep>> \o Nest(d - 1, inner))>>

\* The position of a path in the directory walk.
Index(p) == CHOOSE i \in 1..Len(PathOrder) : PathOrder[i] = p

\* How deep file p nests its include statements in macros.
Depth(p) == IF Index(p) = 1 THEN 0 ELSE IF Index(p) = 2 THEN 1 ELSE MaxDepth

IncludeSeq(incs) ==
    LET chosen == SelectSeq(PathOrder, LAMBDA q : q \in incs)
    IN  [i \in 1..Len(chosen) |-> Include(chosen[i])]

\* The object tree the parser builds of file p when the file includes incs:
\* a definition of Y, then (nested Depth(p) deep) the includes and a
\* definition of X, then a second definition of Y.
Text(p, incs) ==
    Number(<<MacroVariableDefinition("Y", Index(p))>>
           \o Nest(Depth(p),
                   IncludeSeq(incs) \o <<MacroVariableDefinition("X", Index(p))>>)
           \o <<MacroVariableDefinition("Y", Index(p) + Len(PathOrder))>>,
           1)

\* What a file of the tree can be: unparsable, or a program with its includes.
Files ==
    {[ok |-> FALSE, incs |-> {}]}
    \cup {[ok |-> TRUE, incs |-> s] :
              s \in {t \in SUBSET Paths : Cardinality(t) <= MaxIncludes}}

VARIABLES
    tree,           \* the directory tree: path -> file (unchanged by a run)
    root,           \* "ok", "unresolvable" or "unsearchable" (unchanged)
    programPaths,   \* what rglob('*.sas') yields, in order (unchanged)
    pc,             \* where the constructor is
    scanIdx,        \* the next element of programPaths to take
    programs,       \* self.programs
    includePaths,   \* the local includePaths
    pending,        \* what is left of `for path in includePaths`
    loadedBefore,   \* the loaded paths when the while condition was last tested
    parseCount,     \* path -> how often sasProgram(path) was called in this run
    attrs,          \* the attributes set on self
    macroVariables, \* self.macroVariables
    summary,        \* self.summary
    objects,        \* self.objects, by position in self.programs
    loadResult,     \* what load_project returned: "none", "None" or "False"
    run,            \* the number of this construction
    prev            \* the outcome of the previous construction

vars == <<tree, root, programPaths, pc, scanIdx, programs, includePaths,
          pending, loadedBefore, parseCount, attrs, macroVariables, summary,
          objects, loadResult, run, prev>>

world == <<tree, root, programPaths>>

\* -------------------------------------------------------------- sasProgram

\* sasProgram(path): the Program Unit of a path. A failure is recorded in
\* failedLoad, and the unit then has no objects.
sasProgram(path) ==
    IF tree[path].ok
    THEN [path |-> path, failedLoad |-> 0, contents |-> Text(path, tree[path].incs)]
    ELSE [path |-> path, failedLoad |-> 1, contents |-> <<>>]

RECURSIVE ProgramGetObjects(_, _)
\* sasProgram.get_objects: the objects of contents in document order, a macro
\* replaced by its contents, restricted to objectType unless that is "None".
ProgramGetObjects(contents, objectType) ==
    IF contents = <<>> THEN <<>>
    ELSE LET obj == Head(contents)
             rest == ProgramGetObjects(Tail(contents), objectType)
         IN  IF obj.kind = "macro"
             THEN ProgramGetObjects(obj.contents, objectType) \o rest
             ELSE IF objectType = "None" \/ obj.kind = objectType
                  THEN <<obj>> \o rest
                  ELSE rest

\* ---------------------------------------------------------------- Counters

\* A collections.Counter: kind -> count, holding only the kinds counted.
CounterAdd(c, d) ==
    LET sum(k) == (IF k \in DOMAIN c THEN c[k] ELSE 0)
                  + (IF k \in DOMAIN d THEN d[k] ELSE 0)
    IN  [k \in {x \in DOMAIN c \cup DOMAIN d : sum(x) > 0} |-> sum(k)]

RECURSIVE SummariseObjects(_)
\* sasProgram.summarise_objects: the count of every kind in contents, a macro
\* counted as itself and for what it contains.
SummariseObjects(contents) ==
    IF contents = <<>> THEN EmptyMap
    ELSE LET obj == Head(contents)
         IN  CounterAdd(CounterAdd([k \in {obj.kind} |-> 1],
                                   SummariseObjects(obj.contents)),
                        SummariseObjects(Tail(contents)))

\* -------------------------------------------------------------- sasProject

PathsOf(progs) == {progs[i].path : i \in 1..Len(progs)}

RECURSIVE GetObjectsUnfiltered(_, _)
\* The stream with objectType not handed on to the programs.
GetObjectsUnfiltered(progs, objectType) ==
    IF progs = <<>> THEN <<>>
    ELSE ProgramGetObjects(Head(progs).contents, "None")
         \o GetObjectsUnfiltered(Tail(progs), objectType)

RECURSIVE GetObjects(_, _)
\* sasProject.get_objects
GetObjects(progs, objectType) ==
    IF progs = <<>> THEN <<>>
    ELSE ProgramGetObjects(Head(progs).contents, objectType)
         \o GetObjects(Tail(progs), objectType)

\* set(include.path for include in self.get_objects(objectType='include'))
IncludePathsOf(progs) == {o.path : o \in Range(GetObjects(progs, "include"))}

\* The condition with the loaded paths left out of it.
WhileConditionAnyInclude(incs, progs) == incs # {}

\* The condition of the while loop.
WhileCondition(incs, progs) == incs \ PathsOf(progs) # {}

\* The filter with its test turned round.
FinalizedProgramsFailedOnly(progs) ==
    SelectSeq(progs, LAMBDA program : program.failedLoad = 1)

\* [program for program in self.programs if program.failedLoad != 1]
FinalizedPrograms(progs) == SelectSeq(progs, LAMBDA program : program.failedLoad # 1)

RECURSIVE DictOf(_)
\* {d.variable: d.value for d in defs}: a later key replaces an earlier one.
DictOf(defs) ==
    IF defs = <<>> THEN EmptyMap
    ELSE LET init == DictOf(SubSeq(defs, 1, Len(defs) - 1))
             d == defs[Len(defs)]
         IN  [n \in DOMAIN init \cup {d.variable} |->
                  IF n = d.variable THEN d.value ELSE init[n]]

Reverse(s) == [i \in 1..Len(s) |-> s[Len(s) + 1 - i]]

\* The mapping in which the first definition of a name stays.
MacroVariablesFirstWins(progs) ==
    DictOf(Reverse(GetObjects(progs, "macroVariableDefinition")))

\* self.macroVariables = {d.variable: d.value for d in self.get_objects(...)}
MacroVariablesOf(progs) == DictOf(GetObjects(progs, "macroVariableDefinition"))

\* The counts of every program of progs, by position.
ProgramCounts(progs) ==
    [i \in 1..Len(progs) |-> SummariseObjects(progs[i].contents)]

RECURSIVE SumCounters(_)
\* objectCounter after `objectCounter += cnt` for every cnt of cnts, in order.
SumCounters(cnts) ==
    IF cnts = <<>> THEN EmptyMap
    ELSE CounterAdd(SumCounters(SubSeq(cnts, 1, Len(cnts) - 1)), cnts[Len(cnts)])

\* The summary with objectCounter = cnt in the place of objectCounter += cnt.
SummariseProjectAssigned(progs) ==
    LET cnts == ProgramCounts(progs)
    IN  [objectCounter |-> IF cnts = <<>> THEN EmptyMap ELSE cnts[Len(cnts)],
         programCounter |-> cnts]

\* sasProject.summarise_project: the project's Counter and, by position of
\* the program, each program's counts.
SummariseProject(progs) ==
    LET cnts == ProgramCounts(progs)
    IN  [objectCounter |-> SumCounters(cnts), programCounter |-> cnts]

\* ------------------------------------------------------------------- Init

NoRun == [valid |-> FALSE, programs |-> <<>>, macroVariables |-> EmptyMap]

\* No call of sasProgram yet.
NotParsed == [p \in Paths |-> 0]

Init ==
    /\ root \in {"ok", "unresolvable", "unsearchable"}
    /\ tree \in [Paths -> Files]
    /\ \E inRoot \in SUBSET Paths :
           programPaths = SelectSeq(PathOrder, LAMBDA p : p \in inRoot)
    \* a root that cannot be resolved or searched shows none of its files
    /\ root # "ok" => /\ programPaths = <<>>
                      /\ \A p \in Paths : ~tree[p].ok
    /\ run = 1
    /\ prev = NoRun
    \* __init__ starts: self.programs = []
    /\ pc = "resolve"
    /\ scanIdx = 1
    /\ programs = <<>>
    /\ includePaths = {}
    /\ pending = {}
    /\ loadedBefore = {}
    /\ parseCount = NotParsed
    /\ attrs = {"programs"}
    /\ macroVariables = EmptyMap
    /\ summary = EmptyMap
    /\ objects = <<>>
    /\ loadResult = "none"

\* ---------------------------------------------------------------- actions

\* load_project: self.path = pathlib.Path(path).resolve(strict=True); on an
\* exception load_project returns False and __init__ returns.
ResolvePath ==
    /\ pc = "resolve"
    /\ IF root = "unresolvable"
       THEN /\ loadResult' = "False"
            /\ pc' = "returned"
            /\ attrs' = attrs
       ELSE /\ loadResult' = loadResult
            /\ pc' = "scan"
            /\ attrs' = attrs \cup {"path"}
    /\ UNCHANGED <<world, scanIdx, programs, includePaths, pending,
                   loadedBefore, parseCount, macroVariables, summary, objects,
                   run, prev>>

\* The walk of the root raises while add_programs_to_project iterates it:
\* load_project logs, returns False, and __init__ returns.
ScanRaises ==
    /\ pc = "scan"
    /\ root = "unsearchable"
    /\ loadResult' = "False"
    /\ pc' = "returned"
    /\ UNCHANGED <<world, scanIdx, programs, includePaths, pending,
                   loadedBefore, parseCount, attrs, macroVariables, summary,
                   objects, run, prev>>

\* One turn of `for path in programPaths`.
ScanStep ==
    /\ pc = "scan"
    /\ root = "ok"
    /\ scanIdx <= Len(programPaths)
    /\ LET path == programPaths[scanIdx]
       IN  IF path \notin PathsOf(programs)
           THEN /\ programs' = Append(programs, sasProgram(path))
                /\ parseCount' = [parseCount EXCEPT ![path] = @ + 1]
           ELSE UNCHANGED <<programs, parseCount>>
    /\ scanIdx' = scanIdx + 1
    /\ UNCHANGED <<world, pc, includePaths, pending, loadedBefore, attrs,
                   macroVariables, summary, objects, loadResult, run, prev>>

\* The test of `while includePaths.difference(...)` on the include paths
\* incs just computed: when it holds the for loop starts on them, and when it
\* does not the loop is left.
TestWhile(incs) ==
    /\ loadedBefore' = PathsOf(programs)
    /\ IF WhileCondition(incs, programs)
       THEN /\ pending' = incs
            /\ pc' = "for"
       ELSE /\ pending' = {}
            /\ pc' = "filter"

\* includePaths = set(...) after the scan, and the first test of the loop.
SetIncludePaths ==
    /\ pc = "scan"
    /\ root = "ok"
    /\ scanIdx > Len(programPaths)
    /\ includePaths' = IncludePathsOf(programs)
    /\ TestWhile(IncludePathsOf(programs))
    /\ UNCHANGED <<world, scanIdx, programs, parseCount, attrs,
                   macroVariables, summary, objects, loadResult, run, prev>>

\* One turn of `for path in includePaths`: a set is iterated in any order.
ForStep ==
    /\ pc = "for"
    /\ \E path \in pending :
           /\ programs' = Append(programs, sasProgram(path))
           /\ parseCount' = [parseCount EXCEPT ![path] = @ + 1]
           /\ pending' = pending \ {path}
    /\ UNCHANGED <<world, pc, scanIdx, includePaths, loadedBefore, attrs,
                   macroVariables, summary, objects, loadResult, run, prev>>

\* The end of the loop body with includePaths left as it was.
RecomputeStale ==
    /\ pc = "for"
    /\ pending = {}
    /\ includePaths' = includePaths
    /\ TestWhile(includePaths)
    /\ UNCHANGED <<world, scanIdx, programs, parseCount, attrs,
                   macroVariables, summary, objects, loadResult, run, prev>>

\* includePaths = set(...) at the end of the loop body, and the next test.
RecomputeIncludePaths ==
    /\ pc = "for"
    /\ pending = {}
    /\ includePaths' = IncludePathsOf(programs)
    /\ TestWhile(IncludePathsOf(programs))
    /\ UNCHANGED <<world, scanIdx, programs, parseCount, attrs,
                   macroVariables, summary, objects, loadResult, run, prev>>

\* The failure filter that ends add_programs_to_project, and the rest of
\* load_project: self.macroVariables is set and None is returned.
FilterFailed ==
    /\ pc = "filter"
    /\ programs' = FinalizedPrograms(programs)
    /\ macroVariables' = MacroVariablesOf(FinalizedPrograms(programs))
    /\ attrs' = attrs \cup {"macroVariables"}
    /\ loadResult' = "None"
    /\ pc' = "extended"
    /\ UNCHANGED <<world, scanIdx, includePaths, pending, loadedBefore,
                   parseCount, summary, objects, run, prev>>

\* get_extended_info and add_documentation_to_project, after which __init__
\* returns.
GetExtendedInfo ==
    /\ pc = "extended"
    /\ summary' = SummariseProject(programs).objectCounter
    /\ objects' = SummariseProject(programs).programCounter
    /\ attrs' = attrs \cup {"name", "summary", "objects", "buildTime",
                            "readme", "documentation"}
    /\ pc' = "returned"
    /\ UNCHANGED <<world, scanIdx, programs, includePaths, pending,
                   loadedBefore, parseCount, macroVariables, loadResult, run,
                   prev>>

\* The caller constructs the project of the same, unchanged tree once more.
ConstructAgain ==
    /\ pc = "returned"
    /\ run < MaxRuns
    /\ run' = run + 1
    /\ prev' = [valid |-> TRUE, programs |-> programs,
                macroVariables |-> macroVariables]
    /\ pc' = "resolve"
    /\ scanIdx' = 1
    /\ programs' = <<>>
    /\ includePaths' = {}
    /\ pending' = {}
    /\ loadedBefore' = {}
    /\ parseCount' = NotParsed
    /\ attrs' = {"programs"}
    /\ macroVariables' = EmptyMap
    /\ summary' = EmptyMap
    /\ objects' = <<>>
    /\ loadResult' = "none"
    /\ UNCHANGED world

\* One construction of the project.
Next ==
    \/ ResolvePath
    \/ ScanRaises
    \/ ScanStep
    \/ SetIncludePaths
    \/ ForStep
    \/ RecomputeIncludePaths
    \/ FilterFailed
    \/ GetExtendedInfo

Spec == Init /\ [][Next]_vars

\* The guards of the actions of Next: where the construction has a step to
\* take.
CanStep ==
    \/ pc = "resolve"
    \/ pc = "scan" /\ root = "unsearchable"
    \/ pc = "scan" /\ root = "ok" /\ scanIdx <= Len(programPaths)
    \/ pc = "scan" /\ root = "ok" /\ scanIdx > Len(programPaths)
    \/ pc = "for" /\ pending # {}
    \/ pc = "for" /\ pending = {}
    \/ pc = "filter"
    \/ pc = "extended"

\* Constructions of the project one after the other, on the unchanged tree.
NextAgain == Next \/ ConstructAgain

AgainSpec == Init /\ [][NextAgain]_vars

\* ------------------------------------------------- what the claims speak of

\* add_programs_to_project has returned and load_project went on.
Finalized == pc \in {"extended", "returned"} /\ loadResult = "None"

PathSeq(progs) == [i \in 1..Len(progs) |-> progs[i].path]

RECURSIVE Nodes(_)
\* Every object of an object tree, at any depth.
Nodes(contents) ==
    UNION {{contents[i]} \cup Nodes(contents[i].contents) : i \in 1..Len(contents)}

NonMacroNodes(contents) == {o \in Nodes(contents) : o.kind # "macro"}

RECURSIVE Reach(_)
\* The paths reached from S along the includes of the files that parse.
Reach(S) ==
    LET more == S \cup UNION {tree[p].incs : p \in {q \in S : tree[q].ok}}
    IN  IF more = S THEN S ELSE Reach(more)

Scanned == Range(programPaths)

RECURSIVE SumTo(_, _)
\* f[1] + ... + f[n]
SumTo(f, n) == IF n = 0 THEN 0 ELSE f[n] + SumTo(f, n - 1)

CountOf(c, k) == IF k \in DOMAIN c THEN c[k] ELSE 0

RECURSIVE Arrangements(_)
\* Every sequence that holds each x of the domain of bag bag[x] times.
Arrangements(bag) ==
    LET left == {x \in DOMAIN bag : bag[x] > 0}
    IN  IF left = {} THEN {<<>>}
        ELSE UNION {{<<x>> \o t : t \in Arrangements([bag EXCEPT ![x] = @ - 1])} :
                        x \in left}

\* Every order of the elements of the sequence s.
Orders(s) ==
    Arrangements([x \in Range(s) |-> Cardinality({i \in 1..Len(s) : s[i] = x})])

\* What is left of the construction, as a number: of the turns of the while
\* loop (each loads a path that was not loaded), of the for loop, of the scan.
Measure ==
    LET N == Cardinality(Paths)
    IN  CASE pc = "returned" -> 0
          [] pc = "extended" -> 1
          [] pc = "filter" -> 2
          [] pc = "for" ->
                 3 + Cardinality(Paths \ loadedBefore) * (N + 1) + Cardinality(pending)
          [] pc = "scan" ->
                 3 + (N + 1) * (N + 1) + (Len(programPaths) + 1 - scanIdx)
          [] pc = "resolve" -> 3 + (N + 1) * (N + 1) + Len(programPaths) + 1

\* ------------------------------------------------------------------ claims

\* C1: after add_programs_to_project returns, no two Program Units of the
\* finalized programs list have the same path.
NoDuplicatePaths ==
    Finalized =>
        \A i, j \in 1..Len(programs) :
            i # j => programs[i].path # programs[j].path

\* C2: during one run of add_programs_to_project, sasProgram(path) is called
\* at most once for every path.
ParsedAtMostOnce == \A p \in Paths : parseCount[p] <= 1

\* C3: the closure loop terminates: at the end of every turn of the while
\* loop the set of loaded paths is strictly larger than it was when the
\* condition was tested; every step of the construction lowers Measure, a
\* natural number; and the construction never stops before it has returned.
ClosureTerminates ==
    /\ [](pc = "for" /\ pending = {} =>
              /\ loadedBefore \subseteq PathsOf(programs)
              /\ loadedBefore # PathsOf(programs))
    /\ [][Measure' < Measure]_vars
    /\ [](pc = "returned" \/ CanStep)

\* C3 witness: the loop is left after at least one turn, on a tree with a
\* program that includes itself and an include target that fails to load.
TerminatedOnCycle ==
    /\ pc = "filter"
    /\ Len(programs) > Len(programPaths)
    /\ \E p \in PathsOf(programs) : tree[p].ok /\ p \in tree[p].incs
    /\ \E q \in PathsOf(programs) \ Scanned : ~tree[q].ok

\* C4: failures are isolated: a failing program is no fatal error, and once
\* add_programs_to_project has returned the list holds no failed Program
\* Unit and holds every program that was parsed with success.
FailureIsolation ==
    /\ root = "ok" => loadResult # "False"
    /\ Finalized =>
           /\ \A i \in 1..Len(programs) : programs[i].failedLoad # 1
           /\ \A p \in Paths :
                  parseCount[p] > 0 /\ tree[p].ok => p \in PathsOf(programs)
           /\ \A p \in Reach(Scanned) : parseCount[p] > 0

\* C4 witness: a construction has returned with a program in its list, after
\* a scanned program and an include target outside the scan failed to load.
IsolatedFailures ==
    /\ pc = "returned"
    /\ loadResult = "None"
    /\ programs # <<>>
    /\ \E p \in Scanned : ~tree[p].ok /\ parseCount[p] > 0
    /\ \E q \in Paths \ Scanned : ~tree[q].ok /\ parseCount[q] > 0

\* C5: after a fatal construction error the caller holds no partially built
\* project: a project it holds has every attribute.
NoPartialProject == pc = "returned" => attrs = AllAttrs

\* The definitions of macro variables: each with its program's position.
Definitions ==
    {<<i, o>> \in UNION {{i} \X NonMacroNodes(programs[i].contents) :
                             i \in 1..Len(programs)} :
         o.kind = "macroVariableDefinition"}

\* The last of the definitions defs, by program and then by place in it.
Last(defs) ==
    CHOOSE d \in defs :
        \A e \in defs : e[1] < d[1] \/ (e[1] = d[1] /\ e[2].id <= d[2].id)

CountsAreSums ==
    pc = "returned" /\ loadResult = "None" =>
        /\ Len(objects) = Len(programs)
        /\ \A k \in Kinds :
               CountOf(summary, k)
                   = SumTo([i \in 1..Len(objects) |-> CountOf(objects[i], k)],
                           Len(objects))
        /\ \A k \in DOMAIN summary : k \in Kinds /\ summary[k] > 0
        /\ \A i \in 1..Len(programs) : \A k \in Kinds :
               CountOf(objects[i], k)
                   = Cardinality({o \in Nodes(programs[i].contents) : o.kind = k})
        /\ \A order \in Orders(objects) : SumCounters(order) = summary

\* C7 witness: a project of three programs or more, one of them with nested
\* macros, has been counted.
CountedNested ==
    /\ pc = "returned"
    /\ Len(programs) >= 3
    /\ CountOf(summary, "macro") >= 2
    /\ CountOf(summary, "include") >= 2

\* C8: a second construction on the unchanged tree gives the programs of the
\* first, in the same order, and the same macro-variable mapping.
DeterministicDiscovery ==
    pc = "returned" /\ prev.valid =>
        /\ programs = prev.programs
        /\ macroVariables = prev.macroVariables

\* C9: the stream of get_objects holds no macro and holds every other object
\* of every program once, programs in list order and a program's objects in
\* document order; with a kind given it is the objects of that kind of the
\* stream, those inside macros too.
FlattenNeverYieldsMacro ==
    LET all == GetObjects(programs, "None")
        own == [j \in 1..Len(programs) |-> NonMacroNodes(programs[j].contents)]
        sizes == [j \in 1..Len(programs) |-> Cardinality(own[j])]
    IN  /\ \A k \in 1..Len(all) : all[k].kind # "macro"
        /\ Len(all) = SumTo(sizes, Len(programs))
        /\ \A i \in 1..Len(programs) :
               LET offset == SumTo(sizes, i - 1)
                   mine == [k \in 1..sizes[i] |-> all[offset + k]]
               IN  /\ Range(mine) = own[i]
                   /\ \A k \in 1..(sizes[i] - 1) : mine[k].id < mine[k + 1].id
        /\ \A kind \in Kinds :
               GetObjects(programs, kind)
                   = SelectSeq(all, LAMBDA o : o.kind = kind)

\* C9 witness: the stream of two programs or more, one of them c.sas with its
\* includes inside nested macros.
FlattenedNested ==
    /\ Len(programs) >= 2
    /\ \E i \in 1..Len(programs) :
           /\ programs[i].path = "c.sas"
           /\ \E o \in NonMacroNodes(programs[i].contents) : o.kind = "include"
    /\ Len(GetObjects(programs, "include")) >= 2

IsPrefix(s, t) == Len(s) <= Len(t) /\ \A i \in 1..Len(s) : s[i] = t[i]

\* C10: the finalized list is a fixed point of the include closure: it holds
\* the scanned and include-reachable paths that load, every include target
\* of its programs that loads is in it; the failure filter runs only once no
\* include path is unloaded, and until then the list only grows at its end.
ClosureIsFixedPoint ==
    /\ [](Finalized =>
              /\ \A p \in PathsOf(programs) :
                     \A t \in tree[p].incs : tree[t].ok => t \in PathsOf(programs)
              /\ PathsOf(programs) = {p \in Reach(Scanned) : tree[p].ok})
    /\ [](pc = "filter" => IncludePathsOf(programs) \subseteq PathsOf(programs))
    /\ [][\/ IsPrefix(programs, programs')
          \/ pc = "filter" /\ programs' = FinalizedPrograms(programs)]_vars

\* C10 witness: the finalized list holds c.sas, which no scanned program
\* includes: it was found by the include of an included program.
ReachedBySecondTurn ==
    /\ Finalized
    /\ "c.sas" \in PathsOf(programs) \ Scanned
    /\ \A p \in Scanned : "c.sas" \notin tree[p].incs

====
